---- MODULE Spec2Model ----
(***************************************************************************)
(* Render target components of the PSO macro (render/src/pso/target.rs):   *)
(* RenderTarget, BlendTarget, DepthTarget, StencilTarget,                  *)
(* DepthStencilTarget, Scissor and BlendRef, with their DataLink           *)
(* (new, is_active, link_output, ...) and DataBind (bind_to) impls.        *)
(* One pipeline holds one component of each kind; the components are       *)
(* linked against reflected shader outputs and bound into one RawDataSet   *)
(* through one handle Manager.                                             *)
(***************************************************************************)
EXTENDS Integers, Sequences, FiniteSets, TLC

\* ------------------------------------------------------------------ bounds
\* Operations (link or bind calls) in one behaviour.
MaxOps == 3
\* Highest color slot a reflected output may carry.
MaxSlot == 1

\* ------------------------------------------------------------------ values
\* Option<T>: None is the empty tuple, Some(x) the one-element tuple.
None == <<>>
Some(x) == <<x>>

Slots == 0..MaxSlot

\* Names of reflected outputs; the empty name is the anonymous output.
OutNames == {"", "a", "c"}
\* Names a component is declared with ("b" is reflected by no output).
InitNames == {"a", "b"}

\* shade::OutputVar, reduced to the two fields link_output reads.
OutputVars == [name : OutNames, slot : Slots]

\* state::ColorMask as the set of enabled channels.
MASK_ALL == {"R", "G", "B", "A"}
MASK_RED == {"R"}
\* state::Blend: a color and an alpha blend equation.
Blends == {[color |-> "Add_SrcAlpha_OneMinusSrcAlpha", alpha |-> "Add_One_One"]}
\* Init of a BlendTarget: (name, mask, blend).
BlendInits == {<<n, m, b>> : n \in InitNames, m \in {MASK_RED, MASK_ALL}, b \in Blends}

\* Init of the depth and stencil components.
DepthStates == {"LESS_EQUAL_WRITE"}
StencilStates == {"ALWAYS_KEEP"}

\* The format tags T of the components (T::get_format()).
RenderFormat == <<"R8_G8_B8_A8", "Unorm">>
BlendFormat == <<"R8_G8_B8_A8", "Srgb">>
DepthFormat == <<"D32", "Float">>
StencilFormat == <<"D24_S8", "Uint">>
DepthStencilFormat == <<"D24_S8", "Unorm">>

\* Raw views: the resource they refer to and their dimensions.
RawRTViews == {[res |-> 1, dim |-> 20], [res |-> 2, dim |-> 10]}
RawDSViews == {[res |-> 3, dim |-> 20], [res |-> 4, dim |-> 10]}
\* Typed views handle::RenderTargetView<R, T> / DepthStencilView<R, T>.
RTViews == [raw : RawRTViews]
DSViews == [raw : RawDSViews]
\* Typed::raw()
raw(view) == view.raw
get_dimensions(rawview) == rawview.dim

\* target::Rect, target::ColorValue, (target::Stencil, target::Stencil)
Rects == {<<0, 0, 2, 2>>, <<1, 1, 3, 3>>}
ColorValues == {<<1, 0, 0, 1>>, <<0, 1, 0, 1>>}
StencilRefs == {<<1, 2>>, <<2, 1>>}

\* ------------------------------------------------------------------ state
VARIABLES
    rt,             \* RenderTarget.0 : Option<ColorSlot>
    bt,             \* BlendTarget.0 : Option<ColorSlot>
    depth,          \* DepthTarget (PhantomData only)
    stencil,        \* StencilTarget (PhantomData only)
    depth_stencil,  \* DepthStencilTarget (PhantomData only)
    scissor,        \* Scissor.0 : bool
    blend_ref,      \* BlendRef (unit struct)
    rt_init,        \* the Init the RenderTarget is declared with
    bt_init,        \* the Init the BlendTarget is declared with
    rt_log,         \* reflected outputs link_output was applied to, in order
    bt_log,
    out,            \* the RawDataSet the components are bound into
    man,            \* the handle::Manager
    last,           \* the last operation: its name, argument and result
    steps,          \* operations so far
    draw            \* the draw in flight: its data and the components to bind

vars == <<rt, bt, depth, stencil, depth_stencil, scissor, blend_ref,
          rt_init, bt_init, rt_log, bt_log, out, man, last, steps, draw>>

comps == <<rt, bt, depth, stencil, depth_stencil, scissor, blend_ref>>
inits == <<rt_init, bt_init>>
logs == <<rt_log, bt_log>>

\* ------------------------------------------------------------------ collaborators
\* RawDataSet::new(): no targets, zero scissor, zero reference values.
RawDataSet_new ==
    [pixel_targets |-> [colors |-> [s \in Slots |-> None], depth_stencil |-> None],
     scissor |-> <<0, 0, 0, 0>>,
     ref_values |-> [stencil |-> <<0, 0>>, blend |-> <<0, 0, 0, 0>>]]

Manager_new == [rtvs |-> <<>>, dsvs |-> <<>>]

\* Manager::ref_rtv: registers the view, returns the opaque reference.
Manager_ref_rtv(m, view) ==
    [man |-> [m EXCEPT !.rtvs = Append(@, view)], ref |-> view.res]

\* Manager::ref_dsv
Manager_ref_dsv(m, view) ==
    [man |-> [m EXCEPT !.dsvs = Append(@, view)], ref |-> view.res]

\* PixelTargetSet::add_color: slot -> (reference, dimensions)
add_color(pts, slot, ref, dim) ==
    [pts EXCEPT !.colors[slot] = Some([ref |-> ref, dim |-> dim])]

\* PixelTargetSet::add_depth_stencil: the single depth-stencil entry
add_depth_stencil(pts, ref, has_depth, has_stencil, dim) ==
    [pts EXCEPT !.depth_stencil =
        Some([ref |-> ref, depth |-> has_depth, stencil |-> has_stencil, dim |-> dim])]

\* From<ColorMask> for ColorInfo: the mask, no blending.
ColorInfo_from_mask(mask) == [mask |-> mask, color |-> None, alpha |-> None]

\* From<Depth>, From<Stencil>, From<(Depth, Stencil)> for DepthStencilInfo
DepthStencilInfo_from_depth(d) == [depth |-> Some(d), stencil |-> None]
DepthStencilInfo_from_stencil(s) == [depth |-> None, stencil |-> Some(s)]
DepthStencilInfo_from_both(ds) == [depth |-> Some(ds[1]), stencil |-> Some(ds[2])]

Ok(x) == [ok |-> x]

\* ------------------------------------------------------------------ RenderTarget
RenderTarget_new == None

RenderTarget_is_active(self) == self # None

\* Mutant of RenderTarget_link_output: a name that does not match is reported
\* as a format error.
RenderTarget_link_output_err(self, o, init) ==
    IF o.name = "" \/ o.name = init
    THEN [self |-> Some(o.slot),
          ret |-> Some(Ok(<<RenderFormat, ColorInfo_from_mask(MASK_ALL)>>))]
    ELSE [self |-> self, ret |-> Some([err |-> RenderFormat])]

\* Mutant of RenderTarget_link_output: a name that does not match clears the
\* recorded slot.
RenderTarget_link_output_unlink(self, o, init) ==
    IF o.name = "" \/ o.name = init
    THEN [self |-> Some(o.slot),
          ret |-> Some(Ok(<<RenderFormat, ColorInfo_from_mask(MASK_ALL)>>))]
    ELSE [self |-> None, ret |-> None]

RenderTarget_link_output(self, o, init) ==
    IF o.name = "" \/ o.name = init
    THEN [self |-> Some(o.slot),
          ret |-> Some(Ok(<<RenderFormat, ColorInfo_from_mask(MASK_ALL)>>))]
    ELSE [self |-> self, ret |-> None]

\* Mutant of RenderTarget_bind_to: the `if let Some(slot)` test is missing and
\* an unmatched component binds at slot 0.
RenderTarget_bind_to_unguarded(self, o, data, m) ==
    LET slot == IF self # None THEN self[1] ELSE 0
        r == Manager_ref_rtv(m, raw(data))
    IN [out |-> [o EXCEPT !.pixel_targets =
                    add_color(@, slot, r.ref, get_dimensions(raw(data)))],
        man |-> r.man]

RenderTarget_bind_to(self, o, data, m) ==
    IF self # None
    THEN LET slot == self[1]
             r == Manager_ref_rtv(m, raw(data))
         IN [out |-> [o EXCEPT !.pixel_targets =
                         add_color(@, slot, r.ref, get_dimensions(raw(data)))],
             man |-> r.man]
    ELSE [out |-> o, man |-> m]

\* ------------------------------------------------------------------ BlendTarget
BlendTarget_new == None

BlendTarget_is_active(self) == self # None

\* Mutant of BlendTarget_link_output: the empty name is not a wildcard.
BlendTarget_link_output_named_only(self, o, init) ==
    IF o.name = init[1]
    THEN [self |-> Some(o.slot),
          ret |-> Some(Ok(<<BlendFormat,
                            [mask |-> init[2],
                             color |-> Some(init[3].color),
                             alpha |-> Some(init[3].alpha)]>>))]
    ELSE [self |-> self, ret |-> None]

\* Mutant of BlendTarget_link_output: the descriptor carries the write-all
\* mask, as that of RenderTarget, not the mask of the Init.
BlendTarget_link_output_mask_all(self, o, init) ==
    IF o.name = "" \/ o.name = init[1]
    THEN [self |-> Some(o.slot),
          ret |-> Some(Ok(<<BlendFormat,
                            [mask |-> MASK_ALL,
                             color |-> Some(init[3].color),
                             alpha |-> Some(init[3].alpha)]>>))]
    ELSE [self |-> self, ret |-> None]

BlendTarget_link_output(self, o, init) ==
    IF o.name = "" \/ o.name = init[1]
    THEN [self |-> Some(o.slot),
          ret |-> Some(Ok(<<BlendFormat,
                            [mask |-> init[2],
                             color |-> Some(init[3].color),
                             alpha |-> Some(init[3].alpha)]>>))]
    ELSE [self |-> self, ret |-> None]

\* Mutant of BlendTarget_bind_to: the view is added at slot 0, not at the
\* recorded slot.
BlendTarget_bind_to_first_slot(self, o, data, m) ==
    IF self # None
    THEN LET r == Manager_ref_rtv(m, raw(data))
         IN [out |-> [o EXCEPT !.pixel_targets =
                         add_color(@, 0, r.ref, get_dimensions(raw(data)))],
             man |-> r.man]
    ELSE [out |-> o, man |-> m]

BlendTarget_bind_to(self, o, data, m) ==
    IF self # None
    THEN LET slot == self[1]
             r == Manager_ref_rtv(m, raw(data))
         IN [out |-> [o EXCEPT !.pixel_targets =
                         add_color(@, slot, r.ref, get_dimensions(raw(data)))],
             man |-> r.man]
    ELSE [out |-> o, man |-> m]

\* ------------------------------------------------------------------ DepthTarget
DepthTarget_new == "PhantomData"

DepthTarget_is_active(self) == TRUE

DepthTarget_link_depth_stencil(self, init) ==
    [self |-> self, ret |-> Some(<<DepthFormat[1], DepthStencilInfo_from_depth(init)>>)]

\* Mutant of DepthTarget_bind_to: the stencil flag is passed as true.
DepthTarget_bind_to_both_flags(self, o, data, m) ==
    LET dsv == raw(data)
        r == Manager_ref_dsv(m, dsv)
    IN [out |-> [o EXCEPT !.pixel_targets =
                    add_depth_stencil(@, r.ref, TRUE, TRUE, get_dimensions(dsv))],
        man |-> r.man]

DepthTarget_bind_to(self, o, data, m) ==
    LET dsv == raw(data)
        r == Manager_ref_dsv(m, dsv)
    IN [out |-> [o EXCEPT !.pixel_targets =
                    add_depth_stencil(@, r.ref, TRUE, FALSE, get_dimensions(dsv))],
        man |-> r.man]

\* ------------------------------------------------------------------ StencilTarget
StencilTarget_new == "PhantomData"

StencilTarget_is_active(self) == TRUE

StencilTarget_link_depth_stencil(self, init) ==
    [self |-> self, ret |-> Some(<<StencilFormat[1], DepthStencilInfo_from_stencil(init)>>)]

\* Mutant of StencilTarget_bind_to: the reference pair is added to the stored
\* one (u8 arithmetic) instead of replacing it.
StencilTarget_bind_to_accumulate(self, o, data, m) ==
    LET dsv == raw(data[1])
        r == Manager_ref_dsv(m, dsv)
    IN [out |-> [o EXCEPT !.pixel_targets =
                    add_depth_stencil(@, r.ref, FALSE, TRUE, get_dimensions(dsv)),
                              !.ref_values.stencil =
                                  <<(@[1] + data[2][1]) % 256, (@[2] + data[2][2]) % 256>>],
        man |-> r.man]

\* Mutant of StencilTarget_bind_to: the depth flag of the entry already in the
\* raw set is kept.
StencilTarget_bind_to_merge(self, o, data, m) ==
    LET dsv == raw(data[1])
        r == Manager_ref_dsv(m, dsv)
        old == o.pixel_targets.depth_stencil
        has_depth == old # None /\ old[1].depth
    IN [out |-> [o EXCEPT !.pixel_targets =
                    add_depth_stencil(@, r.ref, has_depth, TRUE, get_dimensions(dsv)),
                              !.ref_values.stencil = data[2]],
        man |-> r.man]

StencilTarget_bind_to(self, o, data, m) ==
    LET dsv == raw(data[1])
        r == Manager_ref_dsv(m, dsv)
    IN [out |-> [o EXCEPT !.pixel_targets =
                    add_depth_stencil(@, r.ref, FALSE, TRUE, get_dimensions(dsv)),
                              !.ref_values.stencil = data[2]],
        man |-> r.man]

\* ------------------------------------------------------------------ DepthStencilTarget
DepthStencilTarget_new == "PhantomData"

DepthStencilTarget_is_active(self) == TRUE

DepthStencilTarget_link_depth_stencil(self, init) ==
    [self |-> self,
     ret |-> Some(<<DepthStencilFormat[1], DepthStencilInfo_from_both(init)>>)]

\* Mutant of DepthStencilTarget_bind_to: the reference pair is stored with
\* front and back exchanged.
DepthStencilTarget_bind_to_swapped(self, o, data, m) ==
    LET dsv == raw(data[1])
        r == Manager_ref_dsv(m, dsv)
    IN [out |-> [o EXCEPT !.pixel_targets =
                    add_depth_stencil(@, r.ref, TRUE, TRUE, get_dimensions(dsv)),
                              !.ref_values.stencil = <<data[2][2], data[2][1]>>],
        man |-> r.man]

\* Mutant of DepthStencilTarget_bind_to: the view is written without being
\* registered with the manager.
DepthStencilTarget_bind_to_unregistered(self, o, data, m) ==
    LET dsv == raw(data[1])
    IN [out |-> [o EXCEPT !.pixel_targets =
                    add_depth_stencil(@, dsv.res, TRUE, TRUE, get_dimensions(dsv)),
                              !.ref_values.stencil = data[2]],
        man |-> m]

DepthStencilTarget_bind_to(self, o, data, m) ==
    LET dsv == raw(data[1])
        r == Manager_ref_dsv(m, dsv)
    IN [out |-> [o EXCEPT !.pixel_targets =
                    add_depth_stencil(@, r.ref, TRUE, TRUE, get_dimensions(dsv)),
                              !.ref_values.stencil = data[2]],
        man |-> r.man]

\* ------------------------------------------------------------------ Scissor
Scissor_new == FALSE

Scissor_is_active(self) == self

\* Mutant of Scissor_link_scissor: the flag is toggled, not set.
Scissor_link_scissor_toggle(self) == [self |-> ~self, ret |-> TRUE]

Scissor_link_scissor(self) == [self |-> TRUE, ret |-> TRUE]

\* Mutant of Scissor_bind_to: the rectangle is written only if the component
\* is active.
Scissor_bind_to_if_active(self, o, data, m) ==
    [out |-> IF self THEN [o EXCEPT !.scissor = data] ELSE o, man |-> m]

\* Mutant of Scissor_bind_to: the reference values are reset along with the
\* rectangle.
Scissor_bind_to_reset_refs(self, o, data, m) ==
    [out |-> [o EXCEPT !.scissor = data,
                       !.ref_values = [stencil |-> <<0, 0>>, blend |-> <<0, 0, 0, 0>>]],
     man |-> m]

Scissor_bind_to(self, o, data, m) ==
    [out |-> [o EXCEPT !.scissor = data], man |-> m]

\* ------------------------------------------------------------------ BlendRef
BlendRef_new == "BlendRef"

\* Mutant of BlendRef_is_active: the trait's answer for a component that is
\* not linked.
BlendRef_is_active_never(self) == FALSE

BlendRef_is_active(self) == TRUE

\* Mutant of BlendRef_bind_to: the color is written only over the initial
\* value.
BlendRef_bind_to_once(self, o, data, m) ==
    [out |-> IF o.ref_values.blend = <<0, 0, 0, 0>>
             THEN [o EXCEPT !.ref_values.blend = data]
             ELSE o,
     man |-> m]

\* Mutant of BlendRef_bind_to: the reference values are replaced as a whole,
\* the stencil pair by its default.
BlendRef_bind_to_whole(self, o, data, m) ==
    [out |-> [o EXCEPT !.ref_values = [stencil |-> <<0, 0>>, blend |-> data]],
     man |-> m]

BlendRef_bind_to(self, o, data, m) ==
    [out |-> [o EXCEPT !.ref_values.blend = data], man |-> m]

\* ------------------------------------------------------------------ behaviour
\* The record of an operation; rep says that it repeats the operation before it
\* (same operation, same argument).
Op(name, arg, ret) ==
    [op |-> name, arg |-> arg, ret |-> ret,
     rep |-> (last.op = name /\ last.arg = arg)]

\* No draw in flight.
NoDraw == <<>>

Init ==
    /\ rt = RenderTarget_new
    /\ bt = BlendTarget_new
    /\ depth = DepthTarget_new
    /\ stencil = StencilTarget_new
    /\ depth_stencil = DepthStencilTarget_new
    /\ scissor = Scissor_new
    /\ blend_ref = BlendRef_new
    /\ rt_init \in InitNames
    /\ bt_init \in BlendInits
    /\ rt_log = <<>>
    /\ bt_log = <<>>
    /\ out = RawDataSet_new
    /\ man = Manager_new
    /\ last = [op |-> "new", arg |-> <<>>, ret |-> <<>>, rep |-> FALSE]
    /\ steps = 0
    /\ draw = NoDraw

Step ==
    /\ steps < MaxOps
    /\ steps' = steps + 1
    /\ UNCHANGED draw

LinkOutputRT ==
    \E o \in OutputVars :
        LET r == RenderTarget_link_output(rt, o, rt_init) IN
        /\ Step
        /\ rt' = r.self
        /\ rt_log' = Append(rt_log, o)
        /\ last' = Op("rt.link_output", o, r.ret)
        /\ UNCHANGED <<bt, depth, stencil, depth_stencil, scissor, blend_ref,
                       inits, bt_log, out, man>>

LinkOutputBT ==
    \E o \in OutputVars :
        LET r == BlendTarget_link_output(bt, o, bt_init) IN
        /\ Step
        /\ bt' = r.self
        /\ bt_log' = Append(bt_log, o)
        /\ last' = Op("bt.link_output", o, r.ret)
        /\ UNCHANGED <<rt, depth, stencil, depth_stencil, scissor, blend_ref,
                       inits, rt_log, out, man>>

LinkDepth ==
    \E i \in DepthStates :
        LET r == DepthTarget_link_depth_stencil(depth, i) IN
        /\ Step
        /\ depth' = r.self
        /\ last' = Op("depth.link_depth_stencil", i, r.ret)
        /\ UNCHANGED <<rt, bt, stencil, depth_stencil, scissor, blend_ref,
                       inits, logs, out, man>>

LinkStencil ==
    \E i \in StencilStates :
        LET r == StencilTarget_link_depth_stencil(stencil, i) IN
        /\ Step
        /\ stencil' = r.self
        /\ last' = Op("stencil.link_depth_stencil", i, r.ret)
        /\ UNCHANGED <<rt, bt, depth, depth_stencil, scissor, blend_ref,
                       inits, logs, out, man>>

LinkDepthStencil ==
    \E i \in DepthStates \X StencilStates :
        LET r == DepthStencilTarget_link_depth_stencil(depth_stencil, i) IN
        /\ Step
        /\ depth_stencil' = r.self
        /\ last' = Op("depth_stencil.link_depth_stencil", i, r.ret)
        /\ UNCHANGED <<rt, bt, depth, stencil, scissor, blend_ref,
                       inits, logs, out, man>>

LinkScissor ==
    LET r == Scissor_link_scissor(scissor) IN
    /\ Step
    /\ scissor' = r.self
    /\ last' = Op("scissor.link_scissor", <<>>, r.ret)
    /\ UNCHANGED <<rt, bt, depth, stencil, depth_stencil, blend_ref,
                   inits, logs, out, man>>

\* A bind_to call: the component is borrowed immutably, so only the raw data
\* set and the manager can change.
\* Mutant of Bound: bind_to takes the recorded slot out of the RenderTarget
\* (as through &mut self).
Bound_take(name, data, r) ==
    /\ Step
    /\ out' = r.out
    /\ man' = r.man
    /\ last' = Op(name, data, <<>>)
    /\ rt' = None
    /\ UNCHANGED <<bt, depth, stencil, depth_stencil, scissor, blend_ref, inits, logs>>

Bound(name, data, r) ==
    /\ Step
    /\ out' = r.out
    /\ man' = r.man
    /\ last' = Op(name, data, <<>>)
    /\ UNCHANGED <<comps, inits, logs>>

BindRT == \E d \in RTViews : Bound("rt.bind_to", d, RenderTarget_bind_to(rt, out, d, man))

BindBT == \E d \in RTViews : Bound("bt.bind_to", d, BlendTarget_bind_to(bt, out, d, man))

BindDepth ==
    \E d \in DSViews : Bound("depth.bind_to", d, DepthTarget_bind_to(depth, out, d, man))

BindStencil ==
    \E d \in DSViews \X StencilRefs :
        Bound("stencil.bind_to", d, StencilTarget_bind_to(stencil, out, d, man))

BindDepthStencil ==
    \E d \in DSViews \X StencilRefs :
        Bound("depth_stencil.bind_to", d,
              DepthStencilTarget_bind_to(depth_stencil, out, d, man))

BindScissor ==
    \E d \in Rects : Bound("scissor.bind_to", d, Scissor_bind_to(scissor, out, d, man))

BindBlendRef ==
    \E d \in ColorValues :
        Bound("blend_ref.bind_to", d, BlendRef_bind_to(blend_ref, out, d, man))

Next ==
    \/ LinkOutputRT
    \/ LinkOutputBT
    \/ LinkDepth
    \/ LinkStencil
    \/ LinkDepthStencil
    \/ LinkScissor
    \/ BindRT
    \/ BindBT
    \/ BindDepth
    \/ BindStencil
    \/ BindDepthStencil
    \/ BindScissor
    \/ BindBlendRef

Spec == Init /\ [][Next]_vars

\* ------------------------------------------------------------------ one draw
\* The aggregator binds every component of the pipeline once per draw, in an
\* order of its own, into one raw data set.

\* The depth/stencil component of the pipeline (at most one) and its data.
\* (A field the component does not take holds a fixed value.)
DepthStencilDraws ==
    {[kind |-> "none", view |-> [raw |-> [res |-> 0, dim |-> 0]], refs |-> <<0, 0>>]}
    \cup {[kind |-> "depth", view |-> v, refs |-> <<0, 0>>] : v \in DSViews}
    \cup {[kind |-> k, view |-> v, refs |-> p] :
              k \in {"stencil", "depth_stencil"}, v \in DSViews, p \in StencilRefs}

\* The Data of the draw's Stencil or Depth-Stencil component.
StencilData(d) == <<d.ds.view, d.ds.refs>>

\* The data of one draw and the components still to bind.
Draws ==
    {[rt |-> a, bt |-> b, ds |-> c, scissor |-> e, blend_ref |-> f,
      todo |-> {"rt", "bt", "scissor", "blend_ref"}
               \cup (IF c.kind = "none" THEN {} ELSE {c.kind})] :
        a \in RTViews, b \in RTViews, c \in DepthStencilDraws,
        e \in Rects, f \in ColorValues}

\* A linked pipeline at the start of a draw: the RenderTarget declared "a" was
\* linked against no output or against one output named "a", the BlendTarget
\* declared "b" against no output or against one anonymous output; the Scissor
\* was enabled or not; the raw data set and the manager are fresh.
InitDraw ==
    /\ rt_init = "a"
    /\ bt_init \in {i \in BlendInits : i[1] = "b"}
    /\ rt_log \in {<<>>} \cup {<<[name |-> "a", slot |-> x]>> : x \in Slots}
    /\ bt_log \in {<<>>} \cup {<<[name |-> "", slot |-> x]>> : x \in Slots}
    /\ rt = IF rt_log = <<>> THEN RenderTarget_new
            ELSE RenderTarget_link_output(RenderTarget_new, rt_log[1], rt_init).self
    /\ bt = IF bt_log = <<>> THEN BlendTarget_new
            ELSE BlendTarget_link_output(BlendTarget_new, bt_log[1], bt_init).self
    /\ depth = DepthTarget_new
    /\ stencil = StencilTarget_new
    /\ depth_stencil = DepthStencilTarget_new
    /\ scissor \in {Scissor_new, Scissor_link_scissor(Scissor_new).self}
    /\ blend_ref = BlendRef_new
    /\ out = RawDataSet_new
    /\ man = Manager_new
    /\ last = [op |-> "new", arg |-> <<>>, ret |-> <<>>, rep |-> FALSE]
    /\ steps = 0
    /\ draw \in Draws

\* The bind_to call of component c in the draw.
DrawBound(c, data, r) ==
    /\ c \in draw.todo
    /\ draw' = [draw EXCEPT !.todo = @ \ {c}]
    /\ out' = r.out
    /\ man' = r.man
    /\ last' = Op(c \o ".bind_to", data, <<>>)
    /\ UNCHANGED <<comps, inits, logs, steps>>

DrawRT == DrawBound("rt", draw.rt, RenderTarget_bind_to(rt, out, draw.rt, man))

DrawBT == DrawBound("bt", draw.bt, BlendTarget_bind_to(bt, out, draw.bt, man))

DrawDepth ==
    DrawBound("depth", draw.ds.view, DepthTarget_bind_to(depth, out, draw.ds.view, man))

DrawStencil ==
    DrawBound("stencil", StencilData(draw),
              StencilTarget_bind_to(stencil, out, StencilData(draw), man))

DrawDepthStencil ==
    DrawBound("depth_stencil", StencilData(draw),
              DepthStencilTarget_bind_to(depth_stencil, out, StencilData(draw), man))

DrawScissor ==
    DrawBound("scissor", draw.scissor, Scissor_bind_to(scissor, out, draw.scissor, man))

DrawBlendRef ==
    DrawBound("blend_ref", draw.blend_ref,
              BlendRef_bind_to(blend_ref, out, draw.blend_ref, man))

NextDraw ==
    \/ DrawRT
    \/ DrawBT
    \/ DrawDepth
    \/ DrawStencil
    \/ DrawDepthStencil
    \/ DrawScissor
    \/ DrawBlendRef

SpecDraw == InitDraw /\ [][NextDraw]_vars

\* ------------------------------------------------------------------ claims
\* The raw set's color-target mapping.
Colors(o) == o.pixel_targets.colors

\* The entry a color-target bind writes for a view: (reference, dimensions).
ColorEntry(data) == Some([ref |-> data.raw.res, dim |-> data.raw.dim])

\* The entry a depth/stencil bind writes for a view.
DepthStencilEntry(view, has_depth, has_stencil) ==
    Some([ref |-> view.raw.res, depth |-> has_depth, stencil |-> has_stencil,
          dim |-> view.raw.dim])

\* The reflection list the component was linked against is the single entry
\* carrying the declared name.
SingleNamed(log, name) == Len(log) = 1 /\ log[1].name = name

\* No output the component was linked against is anonymous or carries the
\* declared name.
NoMatch(log, name) == \A i \in 1..Len(log) : log[i].name # "" /\ log[i].name # name

\* The slot of the first output of the log that is anonymous or carries the
\* declared name.
FirstMatch(log, name) ==
    LET idx == {i \in 1..Len(log) : log[i].name = "" \/ log[i].name = name}
    IN IF idx = {} THEN None
       ELSE Some(log[CHOOSE i \in idx : \A j \in idx : i <= j].slot)

IsBind(name) ==
    name \in {"rt.bind_to", "bt.bind_to", "depth.bind_to", "stencil.bind_to",
              "depth_stencil.bind_to", "scissor.bind_to", "blend_ref.bind_to"}

\* C1, link part: a color target linked against the single entry (N, S) is
\* active and has recorded S.
C1_Linked ==
    /\ SingleNamed(rt_log, rt_init) =>
           RenderTarget_is_active(rt) /\ rt = Some(rt_log[1].slot)
    /\ SingleNamed(bt_log, bt_init[1]) =>
           BlendTarget_is_active(bt) /\ bt = Some(bt_log[1].slot)

\* C1, bind part: every bind of such a component writes the view's entry at
\* key S of the color-target mapping and changes no other key.
C1_Bound ==
    /\ (SingleNamed(rt_log, rt_init) /\ last'.op = "rt.bind_to") =>
           Colors(out') = [Colors(out) EXCEPT ![rt_log[1].slot] = ColorEntry(last'.arg)]
    /\ (SingleNamed(bt_log, bt_init[1]) /\ last'.op = "bt.bind_to") =>
           Colors(out') = [Colors(out) EXCEPT ![bt_log[1].slot] = ColorEntry(last'.arg)]

\* C1: for a RenderTarget or BlendTarget declared with name N, after link_output
\* on a reflection list of exactly one entry (N, S) the component is active, and
\* every subsequent bind_to writes (reference, dimensions) of the view at key S
\* of the color-target mapping and at no other key.
C1_LinkThenBindWritesSlot == []C1_Linked /\ [][C1_Bound]_vars

\* C1 witness: a BlendTarget linked against its single named output at slot 1
\* has been bound, and the entry is at key 1 only.
C1_Witness ==
    /\ SingleNamed(bt_log, bt_init[1])
    /\ bt_log[1].slot = 1
    /\ last.op = "bt.bind_to"
    /\ Colors(out)[1] = ColorEntry(last.arg)
    /\ Colors(out)[0] = None

\* C2, link part: each link_output call on a log without a match returns None
\* and leaves the component inactive.
C2_Unlinked ==
    /\ (last'.op = "rt.link_output" /\ NoMatch(rt_log', rt_init)) =>
           last'.ret = None /\ ~RenderTarget_is_active(rt')
    /\ (last'.op = "bt.link_output" /\ NoMatch(bt_log', bt_init[1])) =>
           last'.ret = None /\ ~BlendTarget_is_active(bt')

\* C2, bind part: a bind of such a component leaves the mapping unchanged.
C2_Unbound ==
    /\ (last'.op = "rt.bind_to" /\ NoMatch(rt_log, rt_init)) =>
           Colors(out') = Colors(out)
    /\ (last'.op = "bt.bind_to" /\ NoMatch(bt_log, bt_init[1])) =>
           Colors(out') = Colors(out)

\* C2: a color target that link_output was applied to only for outputs whose
\* name is non-empty and different from the declared name got None from every
\* call, is inactive, and its bind_to leaves the color-target mapping unchanged.
C2_NoMatchInactiveNoOp ==
    /\ [](/\ NoMatch(rt_log, rt_init) => ~RenderTarget_is_active(rt)
          /\ NoMatch(bt_log, bt_init[1]) => ~BlendTarget_is_active(bt))
    /\ [][C2_Unlinked /\ C2_Unbound]_vars

\* C2 witness: a RenderTarget linked against two outputs, neither matching, has
\* been bound and the mapping is still empty.
C2_Witness ==
    /\ Len(rt_log) = 2
    /\ NoMatch(rt_log, rt_init)
    /\ last.op = "rt.bind_to"
    /\ \A s \in Slots : Colors(out)[s] = None

\* C3: link_output against an output with the empty name matches whatever the
\* declared name is: the component is active with that output's slot and a
\* descriptor (Some(Ok(desc))) is returned.
C3_WildcardMatches ==
    /\ (last.op = "rt.link_output" /\ last.arg.name = "") =>
           /\ RenderTarget_is_active(rt)
           /\ rt = Some(last.arg.slot)
           /\ last.ret # None
           /\ DOMAIN last.ret[1] = {"ok"}
    /\ (last.op = "bt.link_output" /\ last.arg.name = "") =>
           /\ BlendTarget_is_active(bt)
           /\ bt = Some(last.arg.slot)
           /\ last.ret # None
           /\ DOMAIN last.ret[1] = {"ok"}

\* C3 witness: a BlendTarget declared with a name no output carries has just
\* been linked against the anonymous output at slot 1.
C3_Witness ==
    /\ last.op = "bt.link_output"
    /\ last.arg = [name |-> "", slot |-> 1]
    /\ bt_init[1] = "b"
    /\ bt = Some(1)

\* C4: the recorded slot of a color target is the slot of the first matching
\* output it was linked against; later link_output calls do not change it.
C4_FirstMatchWins ==
    /\ FirstMatch(rt_log, rt_init) # None => rt = FirstMatch(rt_log, rt_init)
    /\ FirstMatch(bt_log, bt_init[1]) # None => bt = FirstMatch(bt_log, bt_init[1])

\* C5 as stated: Scissor bind_to sets the scissor rectangle to the supplied one
\* if the component is active and leaves it unchanged if link_scissor was never
\* invoked.
C5_BindOnlyIfActive ==
    [][last'.op = "scissor.bind_to" =>
          IF Scissor_is_active(scissor)
          THEN out'.scissor = last'.arg
          ELSE out'.scissor = out.scissor]_vars

\* C5 amended: Scissor bind_to sets the raw set's scissor rectangle to exactly
\* the supplied rectangle, whether or not the component is active.
C5_BindOverwritesAlways ==
    last.op = "scissor.bind_to" => out.scissor = last.arg

\* C5 witness: an inactive Scissor has been bound and the rectangle is the
\* supplied one.
C5_Witness ==
    /\ last.op = "scissor.bind_to"
    /\ ~Scissor_is_active(scissor)
    /\ out.scissor = last.arg
    /\ out.scissor # RawDataSet_new.scissor

\* C6: a Scissor is inactive after construction; link_scissor makes it active,
\* no other operation changes its active flag, and once active it stays active:
\* is_active() holds iff link_scissor has been invoked.
C6_ActiveIffLinked ==
    /\ ~Scissor_is_active(scissor)
    /\ [][Scissor_is_active(scissor') =
              (Scissor_is_active(scissor) \/ last'.op = "scissor.link_scissor")]_vars

\* C6 witness: link_scissor was invoked, other operations followed, and the
\* Scissor is still active.
C6_Witness ==
    /\ Scissor_is_active(scissor)
    /\ last.op = "scissor.bind_to"
    /\ steps = 3

\* C7: Scissor bind_to, on an active or an inactive Scissor, leaves the
\* color-target mapping, the depth-stencil entry, the blend reference color and
\* the stencil reference pair unchanged and registers nothing with the manager.
C7_ScissorBindFrame ==
    [][last'.op = "scissor.bind_to" =>
          /\ out'.pixel_targets = out.pixel_targets
          /\ out'.ref_values = out.ref_values
          /\ man' = man]_vars

\* C7 witness: an inactive Scissor has been bound into a raw set that holds a
\* depth-stencil entry and a stencil reference pair.
C7_Witness ==
    /\ last.op = "scissor.bind_to"
    /\ ~Scissor_is_active(scissor)
    /\ out.pixel_targets.depth_stencil # None
    /\ out.ref_values.stencil # RawDataSet_new.ref_values.stencil
    /\ out.scissor = last.arg

\* C8: the Depth, Stencil, Depth-Stencil and Blend-Reference components report
\* is_active() = true in every reachable state.
C8_AlwaysActive ==
    /\ DepthTarget_is_active(depth)
    /\ StencilTarget_is_active(stencil)
    /\ DepthStencilTarget_is_active(depth_stencil)
    /\ BlendRef_is_active(blend_ref)

\* C8 witness: a depth component has been linked and bound, with no color
\* output ever reflected.
C8_Witness ==
    /\ last.op = "depth.bind_to"
    /\ steps = 2
    /\ rt_log = <<>>
    /\ bt_log = <<>>
    /\ DepthTarget_is_active(depth)

\* C9: bind_to is idempotent on the raw set: a bind_to that repeats the bind_to
\* before it (same component, same data) leaves the raw set as it was.
C9_BindIdempotent ==
    [][(IsBind(last'.op) /\ last'.rep) => out' = out]_vars

\* C9 witness: a Stencil bind has been repeated, as the third operation.
C9_Witness ==
    /\ last.op = "stencil.bind_to"
    /\ last.rep
    /\ steps = 3
    /\ out.ref_values.stencil = last.arg[2]

\* C10: Depth bind_to writes (ref, true, false, dims), Stencil bind_to writes
\* (ref, false, true, dims) and Depth-Stencil bind_to writes (ref, true, true,
\* dims) into the depth-stencil entry, for the reference and dimensions of the
\* supplied view.
C10_DepthStencilFlags ==
    /\ last.op = "depth.bind_to" =>
           out.pixel_targets.depth_stencil = DepthStencilEntry(last.arg, TRUE, FALSE)
    /\ last.op = "stencil.bind_to" =>
           out.pixel_targets.depth_stencil = DepthStencilEntry(last.arg[1], FALSE, TRUE)
    /\ last.op = "depth_stencil.bind_to" =>
           out.pixel_targets.depth_stencil = DepthStencilEntry(last.arg[1], TRUE, TRUE)

\* C10 witness: a Stencil bind has replaced the entry an earlier bind of
\* another view wrote.
C10_Witness ==
    /\ last.op = "stencil.bind_to"
    /\ Len(man.dsvs) = 2
    /\ man.dsvs[1] # man.dsvs[2]
    /\ out.pixel_targets.depth_stencil = DepthStencilEntry(last.arg[1], FALSE, TRUE)

\* C11: Stencil and Depth-Stencil bind_to with data (view, (front, back)) set
\* the stencil reference pair to exactly (front, back), whatever it was, and
\* leave the blend reference color unchanged; Depth bind_to leaves the stencil
\* reference pair unchanged.
C11_StencilRefs ==
    [][/\ last'.op \in {"stencil.bind_to", "depth_stencil.bind_to"} =>
              out'.ref_values = [stencil |-> last'.arg[2],
                                 blend |-> out.ref_values.blend]
       /\ last'.op = "depth.bind_to" => out'.ref_values = out.ref_values]_vars

\* C11 witness: a Depth-Stencil bind, the third operation, into a raw set
\* whose blend reference color had been set.
C11_Witness ==
    /\ last.op = "depth_stencil.bind_to"
    /\ steps = 3
    /\ out.ref_values.blend \in ColorValues
    /\ out.ref_values.stencil = last.arg[2]

\* C12: Blend-Reference bind_to sets the blend reference color to exactly the
\* supplied value, whatever it was, and leaves the stencil reference pair and
\* every other field of the raw set unchanged.
C12_BlendRefOverwrites ==
    [][last'.op = "blend_ref.bind_to" =>
          out' = [out EXCEPT !.ref_values.blend = last'.arg]]_vars

\* C12 witness: a Blend-Reference bind, not a repetition, into a raw set that
\* holds a depth-stencil entry and a stencil reference pair.
C12_Witness ==
    /\ last.op = "blend_ref.bind_to"
    /\ ~last.rep
    /\ steps = 3
    /\ out.ref_values.blend = last.arg
    /\ out.ref_values.stencil \in StencilRefs
    /\ out.pixel_targets.depth_stencil # None

\* C13: no link operation returns an error: link_output returns None on an
\* output that does not match and Some(Ok(desc)) on one that does, never
\* Some(Err(format)); link_depth_stencil always returns a descriptor.
C13_NoLinkError ==
    /\ last.op = "rt.link_output" =>
           IF last.arg.name # "" /\ last.arg.name # rt_init
           THEN last.ret = None
           ELSE Len(last.ret) = 1 /\ DOMAIN last.ret[1] = {"ok"}
    /\ last.op = "bt.link_output" =>
           IF last.arg.name # "" /\ last.arg.name # bt_init[1]
           THEN last.ret = None
           ELSE Len(last.ret) = 1 /\ DOMAIN last.ret[1] = {"ok"}
    /\ last.op \in {"depth.link_depth_stencil", "stencil.link_depth_stencil",
                    "depth_stencil.link_depth_stencil"} =>
           Len(last.ret) = 1 /\ Len(last.ret[1]) = 2

\* C13 witness: link_output of a RenderTarget has just failed to match and
\* returned None.
C13_Witness ==
    /\ last.op = "rt.link_output"
    /\ last.arg.name = "c"
    /\ last.ret = None

\* C14: on a match the color descriptor has the format of the component's
\* format tag; that of a RenderTarget has the write-all mask and neither a color
\* nor an alpha blend equation, that of a BlendTarget has exactly the mask and
\* the color and alpha blend equations of its Init.
C14_Descriptor ==
    /\ (last.op = "rt.link_output" /\ last.ret # None) =>
           last.ret[1].ok =
               <<RenderFormat, [mask |-> MASK_ALL, color |-> None, alpha |-> None]>>
    /\ (last.op = "bt.link_output" /\ last.ret # None) =>
           last.ret[1].ok =
               <<BlendFormat, [mask |-> bt_init[2],
                               color |-> Some(bt_init[3].color),
                               alpha |-> Some(bt_init[3].alpha)]>>

\* C14 witness: a BlendTarget declared with the red-only mask has just matched
\* an output.
C14_Witness ==
    /\ last.op = "bt.link_output"
    /\ last.ret # None
    /\ bt_init[2] = MASK_RED
    /\ last.ret[1].ok[2].mask = MASK_RED

\* C15: bind_to never changes component state: over every bind_to call the
\* recorded slot of the color targets, the active flag of the Scissor and
\* is_active() of every component are what they were before it.
C15_BindReadsOnly ==
    [][IsBind(last'.op) =>
          /\ comps' = comps
          /\ RenderTarget_is_active(rt') = RenderTarget_is_active(rt)
          /\ BlendTarget_is_active(bt') = BlendTarget_is_active(bt)
          /\ Scissor_is_active(scissor') = Scissor_is_active(scissor)]_vars

\* C15 witness: a linked RenderTarget has been bound twice and still holds the
\* slot it was linked to.
C15_Witness ==
    /\ last.op = "rt.bind_to"
    /\ last.rep
    /\ Len(rt_log) = 1
    /\ rt = Some(rt_log[1].slot)

\* C16: link_output on an output whose name is non-empty and differs from the
\* declared name returns None and leaves the recorded slot as it was; a color
\* target that is active stays active.
C16_NonMatchKeepsSlot ==
    [][/\ (last'.op = "rt.link_output" /\ last'.arg.name # ""
              /\ last'.arg.name # rt_init) => (last'.ret = None /\ rt' = rt)
       /\ (last'.op = "bt.link_output" /\ last'.arg.name # ""
              /\ last'.arg.name # bt_init[1]) => (last'.ret = None /\ bt' = bt)
       /\ RenderTarget_is_active(rt) => RenderTarget_is_active(rt')
       /\ BlendTarget_is_active(bt) => BlendTarget_is_active(bt')]_vars

\* C16 witness: a RenderTarget that recorded slot 1 has been linked against an
\* output that does not match and still holds slot 1.
C16_Witness ==
    /\ last.op = "rt.link_output"
    /\ last.ret = None
    /\ Len(rt_log) = 2
    /\ rt = Some(1)

\* The raw data set of the draw when its components are bound in the order
\* RenderTarget, BlendTarget, depth/stencil, Scissor, BlendRef.
DrawInOrder ==
    LET m == Manager_new
        o1 == RenderTarget_bind_to(rt, RawDataSet_new, draw.rt, m).out
        o2 == BlendTarget_bind_to(bt, o1, draw.bt, m).out
        o3 == CASE draw.ds.kind = "depth" ->
                       DepthTarget_bind_to(depth, o2, draw.ds.view, m).out
                [] draw.ds.kind = "stencil" ->
                       StencilTarget_bind_to(stencil, o2, StencilData(draw), m).out
                [] draw.ds.kind = "depth_stencil" ->
                       DepthStencilTarget_bind_to(depth_stencil, o2, StencilData(draw), m).out
                [] OTHER -> o2
        o4 == Scissor_bind_to(scissor, o3, draw.scissor, m).out
    IN BlendRef_bind_to(blend_ref, o4, draw.blend_ref, m).out

\* The color targets of the pipeline are linked to pairwise distinct slots.
DistinctSlots == rt = None \/ bt = None \/ rt # bt

\* C17: in a draw of a pipeline whose color targets are linked to distinct
\* slots, with at most one of Depth / Stencil / Depth-Stencil, a Scissor and a
\* Blend-Reference, the raw data set after all bind_to calls is the same for
\* every order of the calls: it is the one of the order above.
C17_BindsCommute ==
    (draw.todo = {} /\ DistinctSlots) => out = DrawInOrder

\* C17 witness: a draw of two color targets at distinct slots, a Stencil, a
\* Scissor and a Blend-Reference has ended with the RenderTarget bound last.
C17_Witness ==
    /\ draw.todo = {}
    /\ draw.ds.kind = "stencil"
    /\ rt # None /\ bt # None /\ rt # bt
    /\ last.op = "rt.bind_to"
    /\ Len(man.rtvs) = 2
    /\ man.rtvs[1] = draw.bt.raw

IsDepthStencilBind(name) ==
    name \in {"depth.bind_to", "stencil.bind_to", "depth_stencil.bind_to"}

\* The depth-stencil entry the bind_to call l writes by itself.
WrittenEntry(l) ==
    CASE l.op = "depth.bind_to" -> DepthStencilEntry(l.arg, TRUE, FALSE)
      [] l.op = "stencil.bind_to" -> DepthStencilEntry(l.arg[1], FALSE, TRUE)
      [] l.op = "depth_stencil.bind_to" -> DepthStencilEntry(l.arg[1], TRUE, TRUE)

\* C18: when a Depth, Stencil or Depth-Stencil bind_to follows another one on
\* the same raw set, the depth-stencil entry is exactly what the second call
\* writes (its reference, its own flags, its dimensions): the flags of the two
\* calls are not merged.
C18_LastWriterWins ==
    [][(IsDepthStencilBind(last.op) /\ IsDepthStencilBind(last'.op)) =>
          out'.pixel_targets.depth_stencil = WrittenEntry(last')]_vars

\* C18 witness: a Depth bind right after a Stencil or Depth-Stencil bind (which
\* set the stencil reference pair) left the entry with use-stencil false.
C18_Witness ==
    /\ last.op = "depth.bind_to"
    /\ steps = 2
    /\ Len(man.dsvs) = 2
    /\ out.ref_values.stencil \in StencilRefs
    /\ out.pixel_targets.depth_stencil = DepthStencilEntry(last.arg, TRUE, FALSE)

\* The references held by the raw set and those the manager handed out.
RawSetRefs ==
    {Colors(out)[x][1].ref : x \in {y \in Slots : Colors(out)[y] # None}}
    \cup (IF out.pixel_targets.depth_stencil = None THEN {}
          ELSE {out.pixel_targets.depth_stencil[1].ref})
ManagerRefs ==
    {man.rtvs[i].res : i \in 1..Len(man.rtvs)}
    \cup {man.dsvs[i].res : i \in 1..Len(man.dsvs)}

\* C19, per call: what each bind_to registers with the manager.
C19_Registers ==
    /\ last'.op = "rt.bind_to" =>
           man' = IF RenderTarget_is_active(rt)
                  THEN [man EXCEPT !.rtvs = Append(@, last'.arg.raw)] ELSE man
    /\ last'.op = "bt.bind_to" =>
           man' = IF BlendTarget_is_active(bt)
                  THEN [man EXCEPT !.rtvs = Append(@, last'.arg.raw)] ELSE man
    /\ last'.op = "depth.bind_to" =>
           man' = [man EXCEPT !.dsvs = Append(@, last'.arg.raw)]
    /\ last'.op \in {"stencil.bind_to", "depth_stencil.bind_to"} =>
           man' = [man EXCEPT !.dsvs = Append(@, last'.arg[1].raw)]
    /\ last'.op \in {"scissor.bind_to", "blend_ref.bind_to"} => man' = man

\* C19: an active color-target bind and every Depth / Stencil / Depth-Stencil
\* bind register exactly one view, the one they write; a bind of an inactive
\* color target, of a Scissor or of a Blend-Reference registers nothing; every
\* reference in the raw set was handed out by the manager.
C19_RegisteredIffWritten ==
    /\ [](RawSetRefs \subseteq ManagerRefs)
    /\ [][C19_Registers]_vars

\* C19 witness: after a Scissor bind and another operation that registered
\* nothing, with the color targets inactive, a Depth-Stencil bind registered its
\* view, the only reference in the raw set.
C19_Witness ==
    /\ last.op = "depth_stencil.bind_to"
    /\ steps = 3
    /\ ~RenderTarget_is_active(rt)
    /\ rt_log = <<>> /\ bt_log = <<>>
    /\ ~Scissor_is_active(scissor)
    /\ out.scissor \in Rects
    /\ man = [rtvs |-> <<>>, dsvs |-> <<last.arg[1].raw>>]
    /\ RawSetRefs = {last.arg[1].raw.res}

====
